---- MODULE Spec2Model ----
(***************************************************************************)
(* Model of the trampoline wallet's KeyringService                         *)
(* (src/src/pages/Background/services/keyring.ts): the encrypted vault,    *)
(* the in-memory keyring registry and the user-operation gas pipeline.     *)
(*                                                                         *)
(* Every async method is cut at its awaits: one action is the code that    *)
(* runs between two awaits, so concurrent calls interleave exactly where   *)
(* the JavaScript event loop lets them.                                    *)
(***************************************************************************)
EXTENDS Integers, Sequences, FiniteSets, TLC

(***************************************************************************)
(* Bounds of the model.                                                    *)
(***************************************************************************)
\* number of service calls launched in one behaviour
MaxCalls == 2
\* gas amounts are the multiples 0, GasStep, ..., MaxGas * GasStep
MaxGas == 2
GasStep == 9
MaxRecords == 3
MaxAnswers == 2

Calls == 1..MaxCalls

(***************************************************************************)
(* Values.  JavaScript's undefined and the empty string are both falsy and *)
(* the service only ever tests these fields for truthiness, so one value   *)
(* stands for both.                                                        *)
(***************************************************************************)
NoPassword == ""
NoSalt == 0
NoKey == [pw |-> NoPassword, salt |-> NoSalt]
ZeroAddress == "0x0"

Passwords == {"pw1", "pw2"}
Addresses == {ZeroAddress, "0xA", "0xB"}
ActiveAccountImplementation == "active"
AccountImplementations == {ActiveAccountImplementation, "other"}

\* JavaScript truthiness of the two credential fields
HasPassword(pw) == pw # NoPassword
HasKey(key) == key # NoKey

\* a serialised keyring: KeyringSerialisedState without the opaque data
KeyringSerialisedState(type, address) == [type |-> type, address |-> address]

(***************************************************************************)
(* @metamask/browser-passworder, by what it does: a key is derived from a  *)
(* password and a salt, a blob opens only under the key that sealed it.    *)
(***************************************************************************)
DeriveKey(password, salt) == [pw |-> password, salt |-> salt]

NoVault == [present |-> FALSE, key |-> NoKey, salt |-> NoSalt, data |-> {}]

\* the vault string: ciphertext of `data` under `key`, with the salt embedded
Blob(key, salt, data) == [present |-> TRUE, key |-> key, salt |-> salt, data |-> data]

\* decryptWithDetail(password, vault) succeeds iff the password derives the sealing key
DecryptsWithPassword(password, blob) == DeriveKey(password, blob.salt) = blob.key

\* decryptWithKey(key, payload) succeeds iff key is the sealing key
DecryptsWithKey(key, blob) == key = blob.key

\* importKey(keyString): parsing the empty string fails
ImportKeyFails(keyString) == ~HasKey(keyString)

(***************************************************************************)
(* The vault the service may be constructed with: one record, sealed under *)
(* "pw1" with salt 1.                                                      *)
(***************************************************************************)
InitialSalt == 1
InitialKey == DeriveKey("pw1", InitialSalt)
InitialRecord == KeyringSerialisedState(ActiveAccountImplementation, "0xC")
InitialVault == Blob(InitialKey, InitialSalt, {InitialRecord})

\* a key and a salt of another vault generation
StaleSalt == InitialSalt + 1
StaleKey == DeriveKey("pw1", StaleSalt)

VARIABLES
    keyrings,        \* this.keyrings: address -> implementation of the signer
    vault,           \* this.vault
    password,        \* this.password
    encryptionKey,   \* this.encryptionKey
    encryptionSalt,  \* this.encryptionSalt
    store,           \* the persistence sink: last vaultUpdate payload, keyringUnlocked flag
    saltCounter,     \* salts handed out by the encryptor so far (each one fresh)
    calls,           \* the calls of the service's methods, running or finished
    bundler,         \* whether this.bundler is set
    build,           \* the createUnsignedUserOp call, running or finished
    startup,         \* KeyringService.create: its inputs, its environment and how far it is
    transactions,    \* the transactions slice of the store
    creation,        \* the createUnsignedUserOp thunk, running or finished
    send,            \* the sendTransaction thunk, running or finished
    relay,           \* the operations handed to the relay, in order
    bridge           \* the answers handed to the provider bridge, in order

serviceVars == <<keyrings, vault, password, encryptionKey, encryptionSalt, store, saltCounter, calls>>

gasVars == <<bundler, build>>

startupVars == <<startup>>

txVars == <<transactions, creation, send, relay, bridge>>

vars == <<serviceVars, gasVars, startupVars, txVars>>

EmptyKeyrings == [a \in {} |-> ActiveAccountImplementation]

IdleCall ==
    [op |-> "none", pc |-> "idle", error |-> "",
     password |-> NoPassword, key |-> NoKey, salt |-> NoSalt,
     implementation |-> "", address |-> "",
     snapshot |-> {}, localKey |-> NoKey, localPassword |-> NoPassword,
     blob |-> NoVault, pending |-> {},
     writes |-> {}, crypto |-> {}, dropped |-> {}]

\* the initialState KeyringService.create is given: nothing, a vault alone,
\* or a vault with the key and salt that open it
InitialStates ==
    { [vault |-> NoVault, encryptionKey |-> NoKey, encryptionSalt |-> NoSalt],
      [vault |-> InitialVault, encryptionKey |-> NoKey, encryptionSalt |-> NoSalt],
      [vault |-> InitialVault, encryptionKey |-> InitialKey, encryptionSalt |-> InitialSalt] }

\* create unlocks the vault when initialState holds a key and a salt
CreateUnlocks(initialState) ==
    HasKey(initialState.encryptionKey) /\ initialState.encryptionSalt # NoSalt

\* the service as KeyringService.create returns it
ServiceInit ==
    \E initialState \in InitialStates :
        /\ vault = initialState.vault
        /\ password = NoPassword
        /\ IF CreateUnlocks(initialState)
           THEN /\ encryptionKey = initialState.encryptionKey
                /\ encryptionSalt = initialState.encryptionSalt
                /\ keyrings = [a \in {r.address : r \in initialState.vault.data} |->
                                 ActiveAccountImplementation]
           ELSE /\ encryptionKey = NoKey
                /\ encryptionSalt = NoSalt
                /\ keyrings = EmptyKeyrings
        /\ store = [vault |-> initialState.vault,
                    encryptionKey |-> initialState.encryptionKey,
                    encryptionSalt |-> initialState.encryptionSalt,
                    unlocked |-> FALSE]
        /\ saltCounter = InitialSalt
        /\ calls = [c \in Calls |-> IdleCall]

(***************************************************************************)
(* BigNumberish values and ethers' BigNumber, by what they do: a number,   *)
(* or a hex string given by its digits after "0x"; undefined is neither.   *)
(***************************************************************************)
Number(v) == [kind |-> "number", value |-> v, digits |-> <<>>]
HexString(digits) == [kind |-> "hex", value |-> 0, digits |-> digits]
Undefined == [kind |-> "undefined", value |-> 0, digits |-> <<>>]

RECURSIVE HexValue(_)
HexValue(digits) ==
    IF digits = <<>> THEN 0
    ELSE HexValue(SubSeq(digits, 1, Len(digits) - 1)) * 16 + digits[Len(digits)]

RECURSIVE HexDigits(_)
HexDigits(v) == IF v < 16 THEN <<v>> ELSE Append(HexDigits(v \div 16), v % 16)

\* BigNumber.from(x), for the x it accepts
BigNumberFrom(x) == IF x.kind = "number" THEN x.value ELSE HexValue(x.digits)

\* BigNumber.from(undefined) throws
BigNumberFromThrows(x) == x.kind = "undefined"

\* BigNumber.toHexString(): the digits of the value, padded to whole bytes
ToHexString(v) ==
    LET digits == HexDigits(v)
    IN  HexString(IF Len(digits) % 2 = 1 THEN <<0>> \o digits ELSE digits)

IdleBuild ==
    [pc |-> "idle", error |-> "", address |-> "", data |-> "",
     provisional |-> <<>>, userOp |-> <<>>, signed |-> FALSE, gasParameters |-> <<>>]

(***************************************************************************)
(* What KeyringService.create is given and finds: the initialState, and    *)
(* whether the provider answers, whether the relay answers, the entry      *)
(* points the relay supports and the code at the entry point's address.    *)
(***************************************************************************)
EntryPointAddress == "0xEP"
EntryPoints == {EntryPointAddress, "0xEP2"}
NoCode == "0x"
Codes == {NoCode, "0x60"}

\* a create that has passed its checks and returned the service
Created(initialState) ==
    [pc |-> "returned", error |-> "", initialState |-> initialState,
     network |-> TRUE, relay |-> TRUE, supportedEntryPoint |-> {EntryPointAddress},
     code |-> "0x60"]

\* the initialState whose vault, key and salt the sink holds
InitialStateOf(sink) ==
    [vault |-> sink.vault, encryptionKey |-> sink.encryptionKey,
     encryptionSalt |-> sink.encryptionSalt]

(***************************************************************************)
(* The transactions slice and the thunks over it.  An optional field is    *)
(* the set of its values: empty when undefined.                            *)
(***************************************************************************)
NoOrigin == "undefined"

\* initialState of the slice
InitialTransactionState ==
    [transactionRequest |-> {}, requestOrigin |-> NoOrigin, unsignedUserOperation |-> {}]

IdleCreation == [pc |-> "idle", error |-> "", address |-> ""]

IdleSend ==
    [pc |-> "idle", error |-> "", address |-> "", unsignedUserOp |-> {}, origin |-> NoOrigin,
     signedUserOp |-> {}, sendUserOp |-> "idle"]

\* no thunk has run and no request has been made
TxIdle ==
    /\ transactions = InitialTransactionState
    /\ creation = IdleCreation
    /\ send = IdleSend
    /\ relay = <<>>
    /\ bridge = <<>>

Init ==
    /\ ServiceInit
    /\ bundler = TRUE
    /\ build = IdleBuild
    /\ startup = Created(InitialStateOf(store))
    /\ TxIdle

\* a call id is free when no call has used it; ids are handed out in order
Free(c) == calls[c].pc = "idle" /\ \A d \in Calls : d < c => calls[d].pc # "idle"

Update(c, r) == [calls EXCEPT ![c] = r]

Fail(r, error) ==
    [r EXCEPT !.pc = "failed", !.error = error, !.snapshot = {}, !.pending = {},
              !.localKey = NoKey, !.localPassword = NoPassword]

Finish(r) ==
    [r EXCEPT !.pc = "done", !.snapshot = {}, !.pending = {},
              !.localKey = NoKey, !.localPassword = NoPassword]

(***************************************************************************)
(* persistAllKeyrings                                                      *)
(***************************************************************************)
\* mutant: the key's negation is lost, !this.password && this.encryptionKey
HasCredential_lostNegation(pw, key) == HasPassword(pw) \/ ~HasKey(key)

\* !this.password && !this.encryptionKey, negated
HasCredential(pw, key) == HasPassword(pw) \/ HasKey(key)

\* Object.values(this.keyrings).map(...): the records of the registry as it is now
SerializedKeyrings(registry) ==
    {KeyringSerialisedState(ActiveAccountImplementation, a) : a \in DOMAIN registry}

\* the synchronous head of persistAllKeyrings, run by the caller's step: the
\* credential check on the fields as the caller left them, then the snapshot
\* of the registry
PersistBegin(r, registry, pw, key) ==
    IF ~HasCredential(pw, key)
    THEN Fail(r, "NoCredential")
    ELSE [r EXCEPT !.pc = "serialize", !.snapshot = SerializedKeyrings(registry)]

persistAllKeyrings(c) ==
    /\ Free(c)
    /\ calls' = Update(c, PersistBegin([IdleCall EXCEPT !.op = "persistAllKeyrings"],
                                          keyrings, password, encryptionKey))
    /\ UNCHANGED <<keyrings, vault, password, encryptionKey, encryptionSalt, store, saltCounter,
                   gasVars, startupVars, txVars>>

\* the serialisation has resolved: choose the branch on this.password as it is now
PersistEncrypt(c) ==
    /\ calls[c].pc = "serialize"
    /\ calls' = Update(c,
         IF HasPassword(password)
         THEN [calls[c] EXCEPT !.pc = "encryptWithDetail", !.localPassword = password,
                               !.crypto = @ \cup {"encryptWithDetail"}]
         ELSE IF ImportKeyFails(encryptionKey)
              THEN Fail([calls[c] EXCEPT !.crypto = @ \cup {"importKey"}], "ImportKeyFailed")
              ELSE [calls[c] EXCEPT !.pc = "importKey", !.localKey = encryptionKey,
                                    !.crypto = @ \cup {"importKey"}])
    /\ UNCHANGED <<keyrings, vault, password, encryptionKey, encryptionSalt, store, saltCounter,
                   gasVars, startupVars, txVars>>

\* mutant: the stored vault is emptied before the new one is encrypted
PersistImported_clearsVault(c) ==
    /\ calls[c].pc = "importKey"
    /\ calls[c].op # "unlockVault"
    /\ calls' = Update(c, [calls[c] EXCEPT !.pc = "encryptWithKey",
                                           !.crypto = @ \cup {"encryptWithKey"}])
    /\ store' = [store EXCEPT !.vault = NoVault]
    /\ UNCHANGED <<keyrings, vault, password, encryptionKey, encryptionSalt, saltCounter,
                   gasVars, startupVars, txVars>>

\* importKey has resolved: encryptWithKey is called
PersistImported(c) ==
    /\ calls[c].pc = "importKey"
    /\ calls[c].op # "unlockVault"
    /\ calls' = Update(c, [calls[c] EXCEPT !.pc = "encryptWithKey",
                                           !.crypto = @ \cup {"encryptWithKey"}])
    /\ UNCHANGED <<keyrings, vault, password, encryptionKey, encryptionSalt, store, saltCounter,
                   gasVars, startupVars, txVars>>

\* the payload of vaultUpdate
VaultUpdate(newVault, key, salt) ==
    [store EXCEPT !.vault = newVault, !.encryptionKey = key, !.encryptionSalt = salt]

\* encryptWithDetail has resolved: the fresh key and salt become the active
\* credential and the vault goes to the sink
PersistWritePassword(c) ==
    /\ calls[c].pc = "encryptWithDetail"
    /\ LET salt == saltCounter + 1
           key == DeriveKey(calls[c].localPassword, salt)
       IN  /\ saltCounter' = salt
           /\ encryptionKey' = key
           /\ encryptionSalt' = salt
           /\ store' = VaultUpdate(Blob(key, salt, calls[c].snapshot), key, salt)
    /\ calls' = Update(c, [calls[c] EXCEPT !.pc = "persisted",
                              !.writes = @ \cup {"encryptionKey", "encryptionSalt", "store"}])
    /\ UNCHANGED <<keyrings, vault, password, gasVars, startupVars, txVars>>

\* encryptWithKey has resolved: the salt and the key are read from the
\* service as they are now and the vault goes to the sink
PersistWriteKey(c) ==
    /\ calls[c].pc = "encryptWithKey"
    /\ store' = VaultUpdate(Blob(calls[c].localKey, encryptionSalt, calls[c].snapshot),
                            encryptionKey, encryptionSalt)
    /\ calls' = Update(c, [calls[c] EXCEPT !.pc = "persisted", !.writes = @ \cup {"store"}])
    /\ UNCHANGED <<keyrings, vault, password, encryptionKey, encryptionSalt, saltCounter,
                   gasVars, startupVars, txVars>>

\* the persist has resolved into a direct caller of persistAllKeyrings
PersistReturn(c) ==
    /\ calls[c].pc = "persisted"
    /\ calls[c].op = "persistAllKeyrings"
    /\ calls' = Update(c, Finish(calls[c]))
    /\ UNCHANGED <<keyrings, vault, password, encryptionKey, encryptionSalt, store, saltCounter,
                   gasVars, startupVars, txVars>>

(***************************************************************************)
(* createPassword                                                          *)
(***************************************************************************)
createPassword(c) ==
    /\ Free(c)
    /\ \E pw \in Passwords :
         /\ password' = pw
         /\ calls' = Update(c,
              PersistBegin([IdleCall EXCEPT !.op = "createPassword", !.password = pw,
                                            !.writes = {"password"}],
                           keyrings, pw, encryptionKey))
    /\ UNCHANGED <<keyrings, vault, encryptionKey, encryptionSalt, store, saltCounter,
                   gasVars, startupVars, txVars>>

\* the persist has resolved: keyringUnlocked is dispatched
CreatePasswordReturn(c) ==
    /\ calls[c].pc = "persisted"
    /\ calls[c].op = "createPassword"
    /\ store' = [store EXCEPT !.unlocked = TRUE]
    /\ calls' = Update(c, Finish(calls[c]))
    /\ UNCHANGED <<keyrings, vault, password, encryptionKey, encryptionSalt, saltCounter,
                   gasVars, startupVars, txVars>>

(***************************************************************************)
(* addAccount                                                              *)
(***************************************************************************)
\* new AccountImplementations[implementation](...), account.init() is awaited;
\* the address the account will derive is fixed by its construction
addAccount(c) ==
    /\ Free(c)
    /\ \E implementation \in AccountImplementations, address \in Addresses :
         calls' = Update(c, [IdleCall EXCEPT !.op = "addAccount", !.pc = "init",
                                             !.implementation = implementation,
                                             !.address = address])
    /\ UNCHANGED <<keyrings, vault, password, encryptionKey, encryptionSalt, store, saltCounter,
                   gasVars, startupVars, txVars>>

\* init has resolved: account.getAccountAddress() is awaited
AddInitialized(c) ==
    /\ calls[c].pc = "init"
    /\ calls' = Update(c, [calls[c] EXCEPT !.pc = "getAccountAddress"])
    /\ UNCHANGED <<keyrings, vault, password, encryptionKey, encryptionSalt, store, saltCounter,
                   gasVars, startupVars, txVars>>

\* mutant: the address is compared with the empty hex string
AddressIsZero_emptyHex(address) == address = "0x"

\* address === ethers.constants.AddressZero
AddressIsZero(address) == address = ZeroAddress

\* this.keyrings[address] = account
Register(registry, address, implementation) ==
    [a \in DOMAIN registry \cup {address} |->
        IF a = address THEN implementation ELSE registry[a]]

\* the address has resolved: the zero check, the registration and the
\* synchronous head of the persist
AddRegister(c) ==
    /\ calls[c].pc = "getAccountAddress"
    /\ IF AddressIsZero(calls[c].address)
       THEN /\ calls' = Update(c, Fail(calls[c], "AddressZero"))
            /\ UNCHANGED keyrings
       ELSE /\ keyrings' = Register(keyrings, calls[c].address, calls[c].implementation)
            /\ calls' = Update(c, PersistBegin([calls[c] EXCEPT !.writes = @ \cup {"keyrings"}],
                                               keyrings', password, encryptionKey))
    /\ UNCHANGED <<vault, password, encryptionKey, encryptionSalt, store, saltCounter,
                   gasVars, startupVars, txVars>>

\* mutant: the persist is not awaited, the address is returned while it runs
AddReturn_unawaited(c) ==
    /\ calls[c].pc \in {"serialize", "encryptWithDetail", "importKey", "encryptWithKey",
                        "persisted"}
    /\ calls[c].op = "addAccount"
    /\ calls' = Update(c, Finish(calls[c]))
    /\ UNCHANGED <<keyrings, vault, password, encryptionKey, encryptionSalt, store, saltCounter,
                   gasVars, startupVars, txVars>>

\* the persist has resolved: return account.getAccountAddress()
AddReturn(c) ==
    /\ calls[c].pc = "persisted"
    /\ calls[c].op = "addAccount"
    /\ calls' = Update(c, Finish(calls[c]))
    /\ UNCHANGED <<keyrings, vault, password, encryptionKey, encryptionSalt, store, saltCounter,
                   gasVars, startupVars, txVars>>

(***************************************************************************)
(* unlockVault                                                             *)
(***************************************************************************)
\* mutant: the salt is only required to be given
SaltMatches_anyGiven(salt, blob) == salt # NoSalt

\* encryptionSalt !== parsedEncryptedVault.salt, negated
SaltMatches(salt, blob) == salt = blob.salt

\* the arguments callers pass: a password, or a key and a salt
KeyArguments == {NoKey, InitialKey, StaleKey}
SaltArguments == {NoSalt, InitialSalt, StaleSalt}

\* the synchronous head of unlockVault: the vault check, then the password
\* branch up to decryptWithDetail or the key branch up to importKey
UnlockBegin(r) ==
    IF ~vault.present
    THEN Fail(r, "NoVault")
    ELSE IF HasPassword(r.password)
         THEN [r EXCEPT !.pc = "decryptWithDetail", !.blob = vault,
                        !.crypto = @ \cup {"decryptWithDetail"}]
         ELSE IF ~SaltMatches(r.salt, vault)
              THEN Fail(r, "Expired")
              ELSE IF ImportKeyFails(r.key)
                   THEN Fail([r EXCEPT !.crypto = @ \cup {"importKey"}], "ImportKeyFailed")
                   ELSE [r EXCEPT !.pc = "importKey", !.blob = vault,
                                  !.crypto = @ \cup {"importKey"}]

unlockVault(c) ==
    /\ Free(c)
    /\ \/ \E pw \in Passwords :
            calls' = Update(c, UnlockBegin([IdleCall EXCEPT !.op = "unlockVault",
                                                            !.password = pw]))
       \/ \E key \in KeyArguments, salt \in SaltArguments :
            calls' = Update(c, UnlockBegin([IdleCall EXCEPT !.op = "unlockVault",
                                                            !.key = key, !.salt = salt]))
    /\ UNCHANGED <<keyrings, vault, password, encryptionKey, encryptionSalt, store, saltCounter,
                   gasVars, startupVars, txVars>>

\* vault.map(this._restoreKeyring): every record's restoration is started
RestoreBegin(r, data) == [r EXCEPT !.pc = "restore", !.pending = data]

\* mutant: this.password is assigned before the decryption is known to succeed
UnlockDecryptedWithDetail_eagerPassword(c) ==
    /\ calls[c].pc = "decryptWithDetail"
    /\ password' = calls[c].password
    /\ IF DecryptsWithPassword(calls[c].password, calls[c].blob)
       THEN /\ encryptionKey' = DeriveKey(calls[c].password, calls[c].blob.salt)
            /\ encryptionSalt' = calls[c].blob.salt
            /\ calls' = Update(c, RestoreBegin(
                  [calls[c] EXCEPT !.writes = @ \cup {"password", "encryptionKey",
                                                       "encryptionSalt"}],
                  calls[c].blob.data))
       ELSE /\ calls' = Update(c, Fail([calls[c] EXCEPT !.writes = @ \cup {"password"}],
                                       "IncorrectPassword"))
            /\ UNCHANGED <<encryptionKey, encryptionSalt>>
    /\ UNCHANGED <<keyrings, vault, store, saltCounter, gasVars, startupVars, txVars>>

\* decryptWithDetail has resolved or thrown
UnlockDecryptedWithDetail(c) ==
    /\ calls[c].pc = "decryptWithDetail"
    /\ IF DecryptsWithPassword(calls[c].password, calls[c].blob)
       THEN /\ password' = calls[c].password
            /\ encryptionKey' = DeriveKey(calls[c].password, calls[c].blob.salt)
            /\ encryptionSalt' = calls[c].blob.salt
            /\ calls' = Update(c, RestoreBegin(
                  [calls[c] EXCEPT !.writes = @ \cup {"password", "encryptionKey",
                                                       "encryptionSalt"}],
                  calls[c].blob.data))
       ELSE /\ calls' = Update(c, Fail(calls[c], "IncorrectPassword"))
            /\ UNCHANGED <<password, encryptionKey, encryptionSalt>>
    /\ UNCHANGED <<keyrings, vault, store, saltCounter, gasVars, startupVars, txVars>>

\* importKey has resolved: decryptWithKey is called
UnlockImported(c) ==
    /\ calls[c].pc = "importKey"
    /\ calls[c].op = "unlockVault"
    /\ calls' = Update(c, [calls[c] EXCEPT !.pc = "decryptWithKey",
                                           !.crypto = @ \cup {"decryptWithKey"}])
    /\ UNCHANGED <<keyrings, vault, password, encryptionKey, encryptionSalt, store, saltCounter,
                   gasVars, startupVars, txVars>>

\* decryptWithKey has resolved or thrown
UnlockDecryptedWithKey(c) ==
    /\ calls[c].pc = "decryptWithKey"
    /\ IF DecryptsWithKey(calls[c].key, calls[c].blob)
       THEN /\ encryptionKey' = calls[c].key
            /\ encryptionSalt' = calls[c].salt
            /\ calls' = Update(c, RestoreBegin(
                  [calls[c] EXCEPT !.writes = @ \cup {"encryptionKey", "encryptionSalt"}],
                  calls[c].blob.data))
       ELSE /\ calls' = Update(c, Fail(calls[c], "IncorrectPassword"))
            /\ UNCHANGED <<encryptionKey, encryptionSalt>>
    /\ UNCHANGED <<keyrings, vault, password, store, saltCounter, gasVars, startupVars, txVars>>

\* new AccountImplementations[type](...) throws when the record's type is no
\* key of AccountImplementations
UnknownImplementation(type) == type \notin AccountImplementations

\* the restorations run on while the call waits for them, and after
\* Promise.all has rejected the call on the first failure
Restoring(c) ==
    \/ calls[c].pc = "restore"
    \/ calls[c].pc = "failed" /\ calls[c].error = "RestoreFailed"

\* mutant: each restoration installs a registry of its own
_restoreKeyring_replaces(c) ==
    /\ Restoring(c)
    /\ \E serialized \in calls[c].pending :
         /\ ~UnknownImplementation(serialized.type)
         /\ keyrings' = Register(EmptyKeyrings, serialized.address, serialized.type)
         /\ calls' = Update(c, [calls[c] EXCEPT !.pending = @ \ {serialized},
                                                !.writes = @ \cup {"keyrings"}])
    /\ UNCHANGED <<vault, password, encryptionKey, encryptionSalt, store, saltCounter,
                   gasVars, startupVars, txVars>>

\* _restoreKeyring: one record's keyring has been initialised and is registered
_restoreKeyring(c) ==
    /\ Restoring(c)
    /\ \E serialized \in calls[c].pending :
         /\ ~UnknownImplementation(serialized.type)
         /\ keyrings' = Register(keyrings, serialized.address, serialized.type)
         /\ calls' = Update(c, [calls[c] EXCEPT !.pending = @ \ {serialized},
                                                !.writes = @ \cup {"keyrings"}])
    /\ UNCHANGED <<vault, password, encryptionKey, encryptionSalt, store, saltCounter,
                   gasVars, startupVars, txVars>>

\* Promise.all rejects on the first rejection; the other restorations stay
\* in flight
RestoreFail(r) == [r EXCEPT !.pc = "failed", !.error = "RestoreFailed"]

\* _newKeyring has rejected for one record: its type is unknown, or
\* account.init() has rejected; nothing is registered for it, and
\* unlockVault rejects if it has not yet
RestoreRejected(c) ==
    /\ Restoring(c)
    /\ \E serialized \in calls[c].pending :
         calls' = Update(c, [(IF calls[c].pc = "restore" THEN RestoreFail(calls[c])
                                                          ELSE calls[c])
                                EXCEPT !.pending = @ \ {serialized}])
    /\ UNCHANGED <<keyrings, vault, password, encryptionKey, encryptionSalt, store, saltCounter,
                   gasVars, startupVars, txVars>>

\* Promise.all has resolved: return this.keyrings
UnlockReturn(c) ==
    /\ calls[c].pc = "restore"
    /\ calls[c].pending = {}
    /\ calls' = Update(c, Finish(calls[c]))
    /\ UNCHANGED <<keyrings, vault, password, encryptionKey, encryptionSalt, store, saltCounter,
                   gasVars, startupVars, txVars>>

(***************************************************************************)
(* clearKeyrings                                                           *)
(***************************************************************************)
\* this.keyrings = {}
ClearedKeyrings == EmptyKeyrings

\* mutant: the clear drops the credential as well
clearKeyrings_dropsCredential(c) ==
    /\ Free(c)
    /\ keyrings' = ClearedKeyrings
    /\ password' = NoPassword
    /\ encryptionKey' = NoKey
    /\ encryptionSalt' = NoSalt
    /\ calls' = Update(c, Finish([IdleCall EXCEPT !.op = "clearKeyrings",
                                                  !.writes = {"keyrings", "password",
                                                              "encryptionKey", "encryptionSalt"},
                                                  !.dropped = DOMAIN keyrings]))
    /\ UNCHANGED <<vault, store, saltCounter, gasVars, startupVars, txVars>>

clearKeyrings(c) ==
    /\ Free(c)
    /\ keyrings' = ClearedKeyrings
    /\ calls' = Update(c, Finish([IdleCall EXCEPT !.op = "clearKeyrings",
                                                  !.writes = {"keyrings"},
                                                  !.dropped = DOMAIN keyrings]))
    /\ UNCHANGED <<vault, password, encryptionKey, encryptionSalt, store, saltCounter,
                   gasVars, startupVars, txVars>>

(***************************************************************************)
(* The service: calls are launched at any time and run interleaved.        *)
(***************************************************************************)
Next ==
    \E c \in Calls :
        \/ persistAllKeyrings(c)
        \/ PersistEncrypt(c)
        \/ PersistImported(c)
        \/ PersistWritePassword(c)
        \/ PersistWriteKey(c)
        \/ PersistReturn(c)
        \/ createPassword(c)
        \/ CreatePasswordReturn(c)
        \/ addAccount(c)
        \/ AddInitialized(c)
        \/ AddRegister(c)
        \/ AddReturn(c)
        \/ unlockVault(c)
        \/ UnlockDecryptedWithDetail(c)
        \/ UnlockImported(c)
        \/ UnlockDecryptedWithKey(c)
        \/ _restoreKeyring(c)
        \/ RestoreRejected(c)
        \/ UnlockReturn(c)
        \/ clearKeyrings(c)


Spec == Init /\ [][Next]_vars

(***************************************************************************)
(* unlockVault on a vault of several records: the service is constructed   *)
(* locked with a vault of MaxRecords records of pairwise distinct          *)
(* addresses, whose types may be unknown to this build.                    *)
(***************************************************************************)
RecordAddressList == <<"0xC", "0xD", "0xE", "0xF", "0x10">>
RecordAddresses == {RecordAddressList[i] : i \in 1..MaxRecords}
RecordTypes == AccountImplementations \cup {"unknown"}

RestoreVaults ==
    {Blob(InitialKey, InitialSalt, {KeyringSerialisedState(type[a], a) : a \in RecordAddresses}) :
        type \in [RecordAddresses -> RecordTypes]}

InitRestore ==
    /\ keyrings = EmptyKeyrings
    /\ vault \in RestoreVaults
    /\ password = NoPassword
    /\ encryptionKey = NoKey
    /\ encryptionSalt = NoSalt
    /\ store = [vault |-> vault, encryptionKey |-> NoKey, encryptionSalt |-> NoSalt,
                unlocked |-> FALSE]
    /\ saltCounter = InitialSalt
    /\ calls = [c \in Calls |-> IdleCall]
    /\ bundler = TRUE
    /\ build = IdleBuild
    /\ startup = Created(InitialStateOf(store))
    /\ TxIdle

\* one unlockVault call is made
RestoreCalls == {c \in Calls : \A d \in Calls : c <= d}

NextRestore ==
    \E c \in RestoreCalls :
        \/ unlockVault(c)
        \/ UnlockDecryptedWithDetail(c)
        \/ UnlockImported(c)
        \/ UnlockDecryptedWithKey(c)
        \/ _restoreKeyring(c)
        \/ RestoreRejected(c)
        \/ UnlockReturn(c)

SpecRestore == InitRestore /\ [][NextRestore]_vars

(***************************************************************************)
(* KeyringService.create: the constructor, init and the unlock by the key  *)
(* and salt of initialState.  create throws before it constructs anything  *)
(* when it is given no mainServiceManager; the states below begin with the *)
(* service constructed and init awaiting provider.getNetwork().            *)
(***************************************************************************)
CreateInitialStates ==
    InitialStates \cup
        { [vault |-> InitialVault, encryptionKey |-> StaleKey, encryptionSalt |-> StaleSalt],
          [vault |-> NoVault, encryptionKey |-> InitialKey, encryptionSalt |-> InitialSalt] }

InitCreate ==
    /\ \E initialState \in CreateInitialStates :
         /\ vault = initialState.vault
         /\ store = [vault |-> initialState.vault,
                     encryptionKey |-> initialState.encryptionKey,
                     encryptionSalt |-> initialState.encryptionSalt,
                     unlocked |-> FALSE]
         /\ \E network \in BOOLEAN, relayUp \in BOOLEAN,
                supportedEntryPoint \in SUBSET EntryPoints, code \in Codes :
              startup = [pc |-> "getNetwork", error |-> "", initialState |-> initialState,
                         network |-> network, relay |-> relayUp,
                         supportedEntryPoint |-> supportedEntryPoint, code |-> code]
    /\ keyrings = EmptyKeyrings
    /\ password = NoPassword
    /\ encryptionKey = NoKey
    /\ encryptionSalt = NoSalt
    /\ saltCounter = InitialSalt
    /\ calls = [c \in Calls |-> IdleCall]
    /\ bundler = FALSE
    /\ build = IdleBuild
    /\ TxIdle

StartupFail(error) == [startup EXCEPT !.pc = "failed", !.error = error]

\* provider.getNetwork() has resolved or thrown; the relay's JSON-RPC client
\* is constructed and asked for eth_supportedEntryPoints
InitNetwork ==
    /\ startup.pc = "getNetwork"
    /\ startup' = IF startup.network
                  THEN [startup EXCEPT !.pc = "eth_supportedEntryPoints"]
                  ELSE StartupFail("NetworkUnreachable")
    /\ UNCHANGED <<serviceVars, gasVars, txVars>>

\* mutant: the answer only has to list some entry point
EntryPointSupported_anyListed(supportedEntryPoint) == supportedEntryPoint # {}

\* supportedEntryPoint.includes(this.entryPointAddress)
EntryPointSupported(supportedEntryPoint) == EntryPointAddress \in supportedEntryPoint

\* the relay has answered or the call has thrown; provider.getCode is asked
\* for the entry point's code
InitSupportedEntryPoint ==
    /\ startup.pc = "eth_supportedEntryPoints"
    /\ startup' = IF ~startup.relay
                  THEN StartupFail("RelayUnreachable")
                  ELSE IF ~EntryPointSupported(startup.supportedEntryPoint)
                       THEN StartupFail("EntryPointNotSupported")
                       ELSE [startup EXCEPT !.pc = "getCode"]
    /\ UNCHANGED <<serviceVars, gasVars, txVars>>

\* the code has arrived: code === '0x' throws, otherwise this.bundler is set
\* and init returns
InitCode ==
    /\ startup.pc = "getCode"
    /\ IF startup.code = NoCode
       THEN /\ startup' = StartupFail("EntryPointNotDeployed")
            /\ UNCHANGED bundler
       ELSE /\ startup' = [startup EXCEPT !.pc = "initialized"]
            /\ bundler' = TRUE
    /\ UNCHANGED <<serviceVars, build, txVars>>

\* init has resolved in create: unlockVault(undefined, key, salt) is called
\* when initialState holds both, otherwise the service is returned
CreateInitialized ==
    /\ startup.pc = "initialized"
    /\ IF CreateUnlocks(startup.initialState)
       THEN /\ startup' = [startup EXCEPT !.pc = "unlockVault"]
            /\ \E c \in RestoreCalls :
                 calls' = Update(c, UnlockBegin(
                     [IdleCall EXCEPT !.op = "unlockVault",
                                      !.key = startup.initialState.encryptionKey,
                                      !.salt = startup.initialState.encryptionSalt]))
       ELSE /\ startup' = [startup EXCEPT !.pc = "returned"]
            /\ UNCHANGED calls
    /\ UNCHANGED <<keyrings, vault, password, encryptionKey, encryptionSalt, store, saltCounter,
                   gasVars, txVars>>

\* unlockVault has resolved or thrown in create
CreateUnlocked ==
    /\ startup.pc = "unlockVault"
    /\ \E c \in RestoreCalls :
         \/ /\ calls[c].pc = "done"
            /\ startup' = [startup EXCEPT !.pc = "returned"]
         \/ /\ calls[c].pc = "failed"
            /\ startup' = StartupFail(calls[c].error)
    /\ UNCHANGED <<serviceVars, gasVars, txVars>>

NextCreate ==
    \/ InitNetwork
    \/ InitSupportedEntryPoint
    \/ InitCode
    \/ CreateInitialized
    \/ CreateUnlocked
    \/ \E c \in RestoreCalls :
         \/ UnlockImported(c)
         \/ UnlockDecryptedWithKey(c)
         \/ _restoreKeyring(c)
         \/ RestoreRejected(c)
         \/ UnlockReturn(c)

SpecCreate == InitCreate /\ [][NextCreate]_vars

(***************************************************************************)
(* createUnsignedUserOp                                                    *)
(***************************************************************************)
GasValues == {k * GasStep : k \in 0..MaxGas}

\* the spellings a signer or a relay may use for an amount: a number, the
\* shortest hex string, a hex string with leading zeros
Spellings == {"number", "hex", "padded"}

Spell(v, spelling) ==
    CASE spelling = "number" -> Number(v)
      [] spelling = "hex" -> HexString(HexDigits(v))
      [] spelling = "padded" -> HexString(<<0, 0>> \o HexDigits(v))

GasFields == {"callGasLimit", "verificationGasLimit", "preVerificationGas"}

\* the transaction requests a caller passes
Transactions == {[to |-> "0xT", data |-> d] : d \in {"", "0xd1"}}

\* transaction.data ? hexConcat([transaction.data]) : '0x'
TransactionData(transaction) == IF transaction.data # "" THEN transaction.data ELSE "0x"

\* the synchronous head of the service's createUnsignedUserOp: the keyring
\* is looked up and asked for the operation
createUnsignedUserOp(address, transaction) ==
    IF address \in DOMAIN keyrings
    THEN [build EXCEPT !.pc = "createUnsignedUserOpWithContext",
                       !.address = address,
                       !.data = TransactionData(transaction)]
    ELSE [build EXCEPT !.pc = "failed", !.error = "NoKeyring", !.address = address]

\* the reducers of the slice
SendTransactionRequest(state, transactionRequest, origin) ==
    [state EXCEPT !.transactionRequest = {transactionRequest}, !.requestOrigin = origin]

SetUnsignedUserOperation(state, userOp) == [state EXCEPT !.unsignedUserOperation = {userOp}]

ClearTransactionState(state) ==
    [state EXCEPT !.transactionRequest = {}, !.requestOrigin = NoOrigin,
                  !.unsignedUserOperation = {}]

\* the origins requests come from
Origins == {"https://dapp1", "https://dapp2"}

\* the createUnsignedUserOp thunk is dispatched: it reads the transaction
\* request from the store and, if there is one, calls the service
CreateUnsignedUserOpThunk ==
    /\ creation.pc = "idle"
    /\ build.pc = "idle"
    /\ \E address \in {"0xC", "0xB"} :
         IF transactions.transactionRequest = {}
         THEN /\ creation' = [creation EXCEPT !.pc = "done", !.address = address]
              /\ UNCHANGED build
         ELSE /\ creation' = [creation EXCEPT !.pc = "createUnsignedUserOp",
                                              !.address = address]
              /\ \E transactionRequest \in transactions.transactionRequest :
                   build' = createUnsignedUserOp(address, transactionRequest)
    /\ UNCHANGED <<serviceVars, bundler, startupVars, transactions, send, relay, bridge>>

\* the service has returned the operation: dispatch(setUnsignedUserOperation(userOp))
UnsignedUserOpStored ==
    /\ creation.pc = "createUnsignedUserOp"
    /\ build.pc = "done"
    /\ transactions' = SetUnsignedUserOperation(transactions, build.userOp)
    /\ creation' = [creation EXCEPT !.pc = "done"]
    /\ UNCHANGED <<serviceVars, gasVars, startupVars, send, relay, bridge>>

\* the service has thrown: the thunk rejects and dispatches nothing
UnsignedUserOpFailed ==
    /\ creation.pc = "createUnsignedUserOp"
    /\ build.pc = "failed"
    /\ creation' = [creation EXCEPT !.pc = "failed", !.error = build.error]
    /\ UNCHANGED <<serviceVars, gasVars, startupVars, transactions, send, relay, bridge>>

\* the operations a signer may return for the request
ProvisionalUserOps(address, data) ==
    { [sender |-> address,
       nonce |-> Spell(n, s),
       callData |-> data,
       callGasLimit |-> Spell(cgl, s),
       verificationGasLimit |-> Spell(vgl, s),
       preVerificationGas |-> Spell(pvg, s),
       maxFeePerGas |-> Spell(fee, s),
       maxPriorityFeePerGas |-> Spell(tip, s)] :
         <<n, s, cgl, vgl>> \in (0..1) \X Spellings \X GasValues \X GasValues,
         <<pvg, fee, tip>> \in GasValues \X {GasStep, 2 * GasStep} \X {0, GasStep} }

\* userOp.x = BigNumber.from(userOp.x).toHexString(), for the six numeric fields
NormalizedUserOp(userOp) ==
    [userOp EXCEPT
        !.nonce = ToHexString(BigNumberFrom(userOp.nonce)),
        !.callGasLimit = ToHexString(BigNumberFrom(userOp.callGasLimit)),
        !.verificationGasLimit = ToHexString(BigNumberFrom(userOp.verificationGasLimit)),
        !.preVerificationGas = ToHexString(BigNumberFrom(userOp.preVerificationGas)),
        !.maxFeePerGas = ToHexString(BigNumberFrom(userOp.maxFeePerGas)),
        !.maxPriorityFeePerGas = ToHexString(BigNumberFrom(userOp.maxPriorityFeePerGas))]

\* the signer has returned: the fields are normalised, then the operation is
\* signed for the relay if there is one
UserOpCreated ==
    /\ build.pc = "createUnsignedUserOpWithContext"
    /\ \E userOp \in ProvisionalUserOps(build.address, build.data) :
         build' = [build EXCEPT !.pc = IF bundler THEN "signUserOp" ELSE "estimateUserOpGas",
                                !.provisional = userOp,
                                !.userOp = NormalizedUserOp(userOp)]
    /\ UNCHANGED <<serviceVars, bundler, startupVars, txVars>>

\* signUserOp has resolved: the signed copy goes to the relay
UserOpSigned ==
    /\ build.pc = "signUserOp"
    /\ build' = [build EXCEPT !.pc = "estimateUserOpGas", !.signed = TRUE]
    /\ UNCHANGED <<serviceVars, bundler, startupVars, txVars>>

\* the estimates a relay may answer with
GasEstimates ==
    { [callGasLimit |-> Spell(cgl, s),
       verificationGasLimit |-> Spell(vgl, s),
       preVerificationGas |-> Spell(pvg, s)] :
         <<s, cgl, vgl, pvg>> \in Spellings \X GasValues \X GasValues \X GasValues }

\* this.bundler?.estimateUserOpGas(...) without a bundler
NoGasParameters ==
    [callGasLimit |-> Undefined, verificationGasLimit |-> Undefined,
     preVerificationGas |-> Undefined]

\* mutant: the relay's estimate is adopted whatever the floor
MergeGas_alwaysEstimate(floor, estimate) == ToHexString(BigNumberFrom(estimate))

\* estimated.gt(BigNumber.from(floor)) ? estimated.toHexString() : floor
MergeGas(floor, estimate) ==
    IF BigNumberFrom(estimate) > BigNumberFrom(floor)
    THEN ToHexString(BigNumberFrom(estimate))
    ELSE floor

\* mutant: the pre-verification estimate is also written to the fee field
MergedUserOp_feeFromRelay(userOp, gasParameters) ==
    [userOp EXCEPT
        !.callGasLimit = MergeGas(userOp.callGasLimit, gasParameters.callGasLimit),
        !.verificationGasLimit =
            MergeGas(userOp.verificationGasLimit, gasParameters.verificationGasLimit),
        !.preVerificationGas =
            MergeGas(userOp.preVerificationGas, gasParameters.preVerificationGas),
        !.maxFeePerGas = MergeGas(userOp.maxFeePerGas, gasParameters.preVerificationGas)]

\* the three relay-estimated limits are merged, every other field is kept
MergedUserOp(userOp, gasParameters) ==
    [userOp EXCEPT
        !.callGasLimit = MergeGas(userOp.callGasLimit, gasParameters.callGasLimit),
        !.verificationGasLimit =
            MergeGas(userOp.verificationGasLimit, gasParameters.verificationGasLimit),
        !.preVerificationGas =
            MergeGas(userOp.preVerificationGas, gasParameters.preVerificationGas)]

\* the continuation after the estimate: BigNumber.from of the three
\* estimates, then the merge
Estimated(gasParameters) ==
    IF \E f \in GasFields : BigNumberFromThrows(gasParameters[f])
    THEN [build EXCEPT !.pc = "failed", !.error = "InvalidBigNumber",
                       !.gasParameters = gasParameters]
    ELSE [build EXCEPT !.pc = "done", !.gasParameters = gasParameters,
                       !.userOp = MergedUserOp(build.userOp, gasParameters)]

\* the relay has answered
UserOpEstimated ==
    /\ build.pc = "estimateUserOpGas"
    /\ bundler
    /\ \E gasParameters \in GasEstimates : build' = Estimated(gasParameters)
    /\ UNCHANGED <<serviceVars, bundler, startupVars, txVars>>

\* the relay call has thrown
UserOpEstimateFailed ==
    /\ build.pc = "estimateUserOpGas"
    /\ bundler
    /\ build' = [build EXCEPT !.pc = "failed", !.error = "EstimateFailed"]
    /\ UNCHANGED <<serviceVars, bundler, startupVars, txVars>>

\* mutant: without a relay the signer's floors are returned as they are
UserOpNotEstimated_keepsFloors ==
    /\ build.pc = "estimateUserOpGas"
    /\ ~bundler
    /\ build' = [build EXCEPT !.pc = "done", !.gasParameters = NoGasParameters]
    /\ UNCHANGED <<serviceVars, bundler, startupVars, txVars>>

\* there is no relay: the estimate is undefined
UserOpNotEstimated ==
    /\ build.pc = "estimateUserOpGas"
    /\ ~bundler
    /\ build' = Estimated(NoGasParameters)
    /\ UNCHANGED <<serviceVars, bundler, startupVars, txVars>>

\* the service as constructed, with or without init having set the bundler
\* the slice as a dapp's request, if any, has left it; the origin plays no
\* part in the build, so one origin stands for all
InitGas ==
    /\ ServiceInit
    /\ bundler \in BOOLEAN
    /\ build = IdleBuild
    /\ startup = Created(InitialStateOf(store))
    /\ \/ transactions = InitialTransactionState
       \/ \E transactionRequest \in Transactions :
            transactions = SendTransactionRequest(InitialTransactionState, transactionRequest,
                                                  CHOOSE origin \in Origins : TRUE)
    /\ creation = IdleCreation
    /\ send = IdleSend
    /\ relay = <<>>
    /\ bridge = <<>>

NextGas ==
    \/ CreateUnsignedUserOpThunk
    \/ UnsignedUserOpStored
    \/ UnsignedUserOpFailed
    \/ UserOpCreated
    \/ UserOpSigned
    \/ UserOpEstimated
    \/ UserOpEstimateFailed
    \/ UserOpNotEstimated

SpecGas == InitGas /\ [][NextGas]_vars

(***************************************************************************)
(* The transaction flow: a dapp's request, the createUnsignedUserOp thunk, *)
(* the sendTransaction thunk and the rejectTransaction thunk.  The inside  *)
(* of the service's createUnsignedUserOp is the subject of SpecGas; here   *)
(* the call is one step that returns an operation for the request or       *)
(* throws.                                                                 *)
(***************************************************************************)
\* a dapp's request reaches the store: dispatch(sendTransactionRequest(...))
sendTransactionRequest ==
    /\ \E transactionRequest \in Transactions, origin \in Origins :
         transactions' = SendTransactionRequest(transactions, transactionRequest, origin)
    /\ UNCHANGED <<serviceVars, gasVars, startupVars, creation, send, relay, bridge>>

\* an operation the service's createUnsignedUserOp returns for the request
BuiltUserOp(address, data) ==
    MergedUserOp(NormalizedUserOp(CHOOSE userOp \in ProvisionalUserOps(address, data) : TRUE),
                 CHOOSE gasParameters \in GasEstimates : TRUE)

\* the service's createUnsignedUserOp has returned
UserOpBuilt ==
    /\ build.pc = "createUnsignedUserOpWithContext"
    /\ bundler
    /\ build' = [build EXCEPT !.pc = "done", !.userOp = BuiltUserOp(build.address, build.data)]
    /\ UNCHANGED <<serviceVars, bundler, startupVars, txVars>>

\* the service's createUnsignedUserOp has thrown
UserOpBuildFailed ==
    /\ build.pc = "createUnsignedUserOpWithContext"
    /\ build' = [build EXCEPT !.pc = "failed",
                              !.error = IF bundler THEN "EstimateFailed" ELSE "InvalidBigNumber"]
    /\ UNCHANGED <<serviceVars, bundler, startupVars, txVars>>

\* keyring.signUserOpWithContext(userOp, context): the operation with the
\* signature of the address's signer
SignedUserOp(address, userOp) ==
    [f \in DOMAIN userOp \cup {"signature"} |->
        IF f = "signature" THEN address ELSE userOp[f]]

\* the sendTransaction thunk is dispatched: it reads the unsigned operation
\* and the origin from the store and, if there is an operation, calls the
\* service's signUserOpWithContext, which looks the keyring up
SendTransactionThunk ==
    /\ send.pc = "idle"
    /\ \E address \in {"0xC", "0xB"} :
         send' = [send EXCEPT
                    !.address = address,
                    !.unsignedUserOp = transactions.unsignedUserOperation,
                    !.origin = transactions.requestOrigin,
                    !.pc = IF transactions.unsignedUserOperation = {} THEN "done"
                           ELSE IF address \in DOMAIN keyrings THEN "signUserOpWithContext"
                           ELSE "failed",
                    !.error = IF transactions.unsignedUserOperation # {}
                                   /\ address \notin DOMAIN keyrings
                              THEN "NoKeyring" ELSE ""]
    /\ UNCHANGED <<serviceVars, gasVars, startupVars, transactions, creation, relay, bridge>>

\* mutant: the operation read from the store is handed to the relay
SubmittedUserOp_unsigned(unsignedUserOp, signedUserOp) == unsignedUserOp

\* keyringService.sendUserOp(address, signedUserOp)
SubmittedUserOp(unsignedUserOp, signedUserOp) == signedUserOp

\* origin || ''
OriginOrEmpty(origin) == IF origin = NoOrigin THEN "" ELSE origin

\* the signing has resolved: sendUserOp is called and hands the operation to
\* the relay if there is one, the slice is cleared and the request is
\* resolved with the promise of the hash
UserOpSignedWithContext ==
    /\ send.pc = "signUserOpWithContext"
    /\ \E unsignedUserOp \in send.unsignedUserOp :
         LET signedUserOp == SignedUserOp(send.address, unsignedUserOp)
         IN  /\ send' = [send EXCEPT !.pc = "done", !.signedUserOp = {signedUserOp},
                                     !.sendUserOp = IF bundler THEN "sendUserOpToBundler"
                                                              ELSE "null"]
             /\ relay' = IF bundler
                         THEN Append(relay, SubmittedUserOp(unsignedUserOp, signedUserOp))
                         ELSE relay
    /\ transactions' = ClearTransactionState(transactions)
    /\ bridge' = Append(bridge, [kind |-> "resolve", origin |-> OriginOrEmpty(send.origin)])
    /\ UNCHANGED <<serviceVars, gasVars, startupVars, creation>>

\* the signing has rejected: the thunk rejects
UserOpSigningRejected ==
    /\ send.pc = "signUserOpWithContext"
    /\ send' = [send EXCEPT !.pc = "failed", !.error = "SigningRejected"]
    /\ UNCHANGED <<serviceVars, gasVars, startupVars, transactions, creation, relay, bridge>>

\* the relay has answered with the operation's hash or the call has thrown:
\* the keyring is asked for the receipt
UserOpSent ==
    /\ send.sendUserOp = "sendUserOpToBundler"
    /\ \E answer \in {"getUserOpReceipt", "failed"} :
         send' = [send EXCEPT !.sendUserOp = answer]
    /\ UNCHANGED <<serviceVars, gasVars, startupVars, transactions, creation, relay, bridge>>

\* the receipt has arrived: sendUserOp returns the transaction hash
UserOpReceipt ==
    /\ send.sendUserOp = "getUserOpReceipt"
    /\ send' = [send EXCEPT !.sendUserOp = "done"]
    /\ UNCHANGED <<serviceVars, gasVars, startupVars, transactions, creation, relay, bridge>>

\* the rejectTransaction thunk: the slice is cleared, then the origin is
\* read from the store and the request is rejected
rejectTransaction ==
    /\ Len(bridge) < MaxAnswers
    /\ transactions' = ClearTransactionState(transactions)
    /\ bridge' = Append(bridge, [kind |-> "reject",
                                 origin |-> OriginOrEmpty(transactions'.requestOrigin)])
    /\ UNCHANGED <<serviceVars, gasVars, startupVars, creation, send, relay>>

InitTx ==
    /\ ServiceInit
    /\ bundler \in BOOLEAN
    /\ build = IdleBuild
    /\ startup = Created(InitialStateOf(store))
    /\ TxIdle

NextTx ==
    \/ sendTransactionRequest
    \/ CreateUnsignedUserOpThunk
    \/ UserOpBuilt
    \/ UserOpBuildFailed
    \/ UnsignedUserOpStored
    \/ UnsignedUserOpFailed
    \/ SendTransactionThunk
    \/ UserOpSignedWithContext
    \/ UserOpSigningRejected
    \/ UserOpSent
    \/ UserOpReceipt
    \/ rejectTransaction

SpecTx == InitTx /\ [][NextTx]_vars

(***************************************************************************)
(* Properties.                                                             *)
(***************************************************************************)
\* a call that is inside persistAllKeyrings, between its snapshot and its write
InPersist(c) ==
    /\ calls[c].op # "unlockVault"
    /\ calls[c].pc \in {"serialize", "encryptWithDetail", "importKey", "encryptWithKey"}

PersistedAddresses == {r.address : r \in store.vault.data}

\* the step in which call c is launched as a call of op
Launches(c, op) == calls[c].pc = "idle" /\ calls'[c].op = op

\* C1: two addAccount calls that have both returned leave both addresses in
\* the registry and in the vault last handed to the sink.
C1_ConcurrentAddSafety ==
    \A c1, c2 \in Calls :
        (/\ c1 # c2
         /\ calls[c1].op = "addAccount" /\ calls[c1].pc = "done"
         /\ calls[c2].op = "addAccount" /\ calls[c2].pc = "done")
        => /\ {calls[c1].address, calls[c2].address} \subseteq DOMAIN keyrings
           /\ {calls[c1].address, calls[c2].address} \subseteq PersistedAddresses

\* C2: at most one persistAllKeyrings is between its snapshot and its write.
C2_PersistMutualExclusion == Cardinality({c \in Calls : InPersist(c)}) <= 1

Max(a, b) == IF a >= b THEN a ELSE b

\* C3: in the operation createUnsignedUserOp returns, each of the three gas
\* limits has the value max(floor, estimate), so none is below the floor.
C3_MonotonicGasMerge ==
    build.pc = "done" =>
        \A f \in GasFields :
            /\ BigNumberFrom(build.userOp[f]) =
                 Max(BigNumberFrom(build.provisional[f]), BigNumberFrom(build.gasParameters[f]))
            /\ BigNumberFrom(build.userOp[f]) >= BigNumberFrom(build.provisional[f])

\* C3 witness: a finished build where the relay raises one limit and is
\* below the floor of another, from a signer that spells amounts as hex.
C3_Witness ==
    /\ build.pc = "done"
    /\ build.provisional.callGasLimit.kind = "hex"
    /\ BigNumberFrom(build.gasParameters.callGasLimit)
         > BigNumberFrom(build.provisional.callGasLimit)
    /\ BigNumberFrom(build.gasParameters.preVerificationGas)
         < BigNumberFrom(build.provisional.preVerificationGas)

\* C4: in the operation createUnsignedUserOp returns, the nonce, the two fee
\* fields, the sender and the call data have the values the signer gave them.
C4_OtherFieldsUnchanged ==
    build.pc = "done" =>
        /\ build.userOp.sender = build.provisional.sender
        /\ build.userOp.callData = build.provisional.callData
        /\ \A f \in {"nonce", "maxFeePerGas", "maxPriorityFeePerGas"} :
             /\ build.userOp[f].kind = "hex"
             /\ HexValue(build.userOp[f].digits) = BigNumberFrom(build.provisional[f])

\* C4 witness: a finished build whose relay estimate differs from every
\* floor and from the fees, from a signer that spells amounts as numbers.
C4_Witness ==
    /\ build.pc = "done"
    /\ build.provisional.nonce.kind = "number"
    /\ build.provisional.nonce.value > 0
    /\ \A f \in GasFields :
         BigNumberFrom(build.gasParameters[f]) > BigNumberFrom(build.provisional[f])
    /\ BigNumberFrom(build.gasParameters.preVerificationGas)
         # BigNumberFrom(build.provisional.maxFeePerGas)

\* an unlockVault call by key whose salt is not the stored vault's
StaleUnlock(c) ==
    /\ calls[c].op = "unlockVault"
    /\ calls[c].password = NoPassword
    /\ vault.present
    /\ calls[c].salt # vault.salt

\* C5: unlockVault without a password and with a salt other than the stored
\* vault's fails as expired, and has called nothing of the encryptor.
C5_StaleCredentialDetected ==
    \A c \in Calls :
        StaleUnlock(c) =>
            /\ calls[c].pc = "failed"
            /\ calls[c].error = "Expired"
            /\ calls[c].crypto = {}
            /\ calls[c].writes = {}

\* C5 witness: a stale unlock that passed the key which does open the vault.
C5_Witness ==
    \E c \in Calls : StaleUnlock(c) /\ calls[c].key = vault.key /\ calls[c].salt # NoSalt

\* an addAccount call whose account derived the zero address, past the check
ZeroAdd(c) ==
    /\ calls[c].op = "addAccount"
    /\ calls[c].address = ZeroAddress
    /\ calls[c].pc \notin {"init", "getAccountAddress"}

\* C6: addAccount with a zero derived address fails, registers nothing and
\* starts no persist.
C6_ZeroAddressRejected ==
    /\ \A c \in Calls :
         ZeroAdd(c) =>
            /\ calls[c].pc = "failed"
            /\ calls[c].error = "AddressZero"
            /\ calls[c].writes = {}
            /\ calls[c].crypto = {}
    /\ ZeroAddress \notin DOMAIN keyrings

\* C6 witness: a rejected zero-address add on an unlocked service that holds
\* a keyring, where a persist would have gone through.
C6_Witness ==
    \E c \in Calls :
        /\ ZeroAdd(c)
        /\ HasCredential(password, encryptionKey)
        /\ DOMAIN keyrings # {}

VaultErrors == {"NoVault", "Expired", "IncorrectPassword", "ImportKeyFailed"}

\* an unlockVault call that failed with a vault error
FailedUnlock(c) ==
    /\ calls[c].op = "unlockVault"
    /\ calls[c].pc = "failed"
    /\ calls[c].error \in VaultErrors

\* C7: an unlockVault that fails with a vault error has assigned none of
\* password, encryptionKey, encryptionSalt and keyrings, and the step in
\* which it fails leaves all four as they were.
C7_FailedUnlockChangesNothing ==
    /\ [](\A c \in Calls : FailedUnlock(c) => calls[c].writes = {})
    /\ [][\A c \in Calls :
            (calls[c].op = "unlockVault" /\ calls[c].pc # "failed" /\ calls'[c].pc = "failed")
            => UNCHANGED <<password, encryptionKey, encryptionSalt, keyrings, vault, store>>]_vars
    /\ [][\A c \in Calls :
            (Launches(c, "unlockVault") /\ calls'[c].pc = "failed")
            => UNCHANGED <<password, encryptionKey, encryptionSalt, keyrings, vault, store>>]_vars

\* C7 witness: a wrong password was refused and the service is still locked.
C7_Witness ==
    \E c \in Calls :
        /\ FailedUnlock(c)
        /\ calls[c].error = "IncorrectPassword"
        /\ HasPassword(calls[c].password)
        /\ ~HasCredential(password, encryptionKey)
        /\ DOMAIN keyrings = {}

\* the step in which call c runs the head of persistAllKeyrings
EntersPersist(c) ==
    \/ Launches(c, "persistAllKeyrings")
    \/ /\ calls[c].op = "addAccount"
       /\ calls[c].pc = "getAccountAddress"
       /\ calls'[c].pc # "getAccountAddress"
       /\ calls[c].address # ZeroAddress

\* C8: persistAllKeyrings entered while neither a password nor a key is held
\* fails with the no-credential error, hands nothing to the sink and leaves
\* the stored vault as it was.
C8_PersistNeedsCredential ==
    /\ [][\A c \in Calls :
            (EntersPersist(c) /\ password = NoPassword /\ encryptionKey = NoKey)
            => /\ calls'[c].pc = "failed"
               /\ calls'[c].error = "NoCredential"
               /\ store' = store
               /\ vault' = vault]_vars
    /\ [](\A c \in Calls :
            calls[c].error = "NoCredential" =>
                calls[c].pc = "failed" /\ "store" \notin calls[c].writes)

\* C8 witness: a direct persist was refused while the sink holds a vault.
C8_Witness ==
    \E c \in Calls :
        /\ calls[c].op = "persistAllKeyrings"
        /\ calls[c].error = "NoCredential"
        /\ store.vault.present

\* C9: an unlockVault with the password that opens the vault most recently
\* handed to the sink goes on to decrypt exactly that vault.
C9_UnlockReadsLastPersisted ==
    [][\A c \in Calls :
         (/\ Launches(c, "unlockVault")
          /\ HasPassword(calls'[c].password)
          /\ store.vault.present
          /\ DecryptsWithPassword(calls'[c].password, store.vault))
         => /\ calls'[c].pc = "decryptWithDetail"
            /\ calls'[c].blob = store.vault]_vars

\* C10 as claimed: clearKeyrings drops the credential and the registry and
\* leaves the stored vault alone.
C10_ClearDropsCredential ==
    [][\A c \in Calls :
         Launches(c, "clearKeyrings")
         => /\ keyrings' = EmptyKeyrings
            /\ password' = NoPassword
            /\ encryptionKey' = NoKey
            /\ encryptionSalt' = NoSalt
            /\ UNCHANGED <<vault, store>>]_vars

\* C10 amended: clearKeyrings drops the registry only; the credential fields
\* and the stored vault are unchanged, so a credential held before the clear
\* is still held after it.
C10_ClearDropsRegistryOnly ==
    [][\A c \in Calls :
         Launches(c, "clearKeyrings")
         => /\ keyrings' = EmptyKeyrings
            /\ UNCHANGED <<password, encryptionKey, encryptionSalt, vault, store>>
            /\ calls'[c].pc = "done"]_vars

\* C10 witness: a clear dropped keyrings while a credential was held, and a
\* persist launched after it has written an empty vault.
C10_Witness ==
    \E c, d \in Calls :
        /\ c < d
        /\ calls[c].op = "clearKeyrings"
        /\ calls[c].dropped # {}
        /\ calls[d].op = "persistAllKeyrings"
        /\ calls[d].pc = "done"
        /\ store.vault.present
        /\ store.vault.data = {}

\* the step in which addAccount call c returns its address
AddReturns(c) ==
    calls[c].op = "addAccount" /\ calls[c].pc # "done" /\ calls'[c].pc = "done"

SinkVault == <<store.vault, store.encryptionKey, store.encryptionSalt>>

\* the step in which call c hands the vault of its snapshot to the sink
Delivers(c) ==
    /\ calls[c].pc \in {"encryptWithDetail", "encryptWithKey"}
    /\ calls'[c].pc = "persisted"
    /\ store'.vault.present
    /\ store'.vault.data = calls[c].snapshot
    /\ HasKey(store'.vault.key)

\* C16: the stored vault is replaced in one step: whenever the sink's vault,
\* key or salt change, one persist has handed over the complete blob of its
\* snapshot, and a call that fails has written nothing to the sink, neither
\* before nor in the step in which it fails.
C16_AtomicReplace ==
    [][/\ SinkVault' # SinkVault => \E c \in Calls : Delivers(c)
       /\ \A c \in Calls :
            calls'[c].pc = "failed"
            => /\ "store" \notin calls'[c].writes
               /\ calls[c].pc # "failed" => SinkVault' = SinkVault]_vars

\* C16 witness: a persist has failed after a vault was stored, and the sink
\* holds a complete vault.
C16_Witness ==
    /\ \E c \in Calls : calls[c].pc = "failed" /\ calls[c].error = "NoCredential"
    /\ \E d \in Calls : "store" \in calls[d].writes
    /\ store.vault.present

\* C17: a signer added with implementation type T is written to the vault
\* with type T (and so restored with type T): the snapshot of the persist
\* that addAccount triggers holds the record of its type and address.
C17_TypeRoundTrips ==
    \A c \in Calls :
        calls[c].op = "addAccount" /\ InPersist(c)
        => KeyringSerialisedState(calls[c].implementation, calls[c].address)
             \in calls[c].snapshot

\* C18: every vault, key and salt handed to the sink together are
\* consistent: the vault is sealed with the key handed over and embeds the
\* salt handed over.
C18_DeliveredTripleConsistent ==
    [][SinkVault' # SinkVault
       => /\ store'.vault.key = store'.encryptionKey
          /\ store'.vault.salt = store'.encryptionSalt]_vars

\* C20: an addAccount that fails because its persist finds no credential
\* leaves its signer out of the registry.
C20_FailedAddNotRegistered ==
    \A c \in Calls :
        /\ calls[c].op = "addAccount"
        /\ calls[c].pc = "failed"
        /\ calls[c].error = "NoCredential"
        /\ \A d \in Calls \ {c} : calls[d].op # "addAccount"
        => calls[c].address \notin DOMAIN keyrings

\* the registry that restoring the records one after the other yields: one
\* signer per record address, of the record's type
SequentialRestore(data) ==
    [a \in {r.address : r \in data} |-> (CHOOSE r \in data : r.address = a).type]

\* C12: whatever the order in which the restorations of a vault's records
\* complete, the registry after unlockVault is the one sequential
\* restoration yields, with one signer per record address.
C12_RestoreOrderIndependent ==
    \A c \in Calls :
        calls[c].op = "unlockVault" /\ calls[c].pc = "done"
        => /\ keyrings = SequentialRestore(calls[c].blob.data)
           /\ Cardinality(DOMAIN keyrings) = Cardinality(calls[c].blob.data)

\* C12 witness: an unlock of a vault of several records has returned.
C12_Witness ==
    \E c \in Calls :
        /\ calls[c].op = "unlockVault"
        /\ calls[c].pc = "done"
        /\ Cardinality(calls[c].blob.data) = MaxRecords
        /\ Cardinality(DOMAIN keyrings) = MaxRecords

\* C19: when the restoration of a record fails, unlockVault fails and leaves
\* no partial unlock: with no other call made, no credential is held and no
\* signer is registered.
C19_NoPartialUnlock ==
    \A c \in Calls :
        /\ calls[c].op = "unlockVault"
        /\ calls[c].pc = "failed"
        /\ calls[c].error = "RestoreFailed"
        /\ \A d \in Calls \ {c} : calls[d].pc = "idle"
        => /\ password = NoPassword
           /\ encryptionKey = NoKey
           /\ encryptionSalt = NoSalt
           /\ keyrings = EmptyKeyrings

\* the startup checks the relay and the entry point must pass
ChecksPass ==
    /\ startup.relay
    /\ EntryPointAddress \in startup.supportedEntryPoint
    /\ startup.code # NoCode

\* C13: the startup checks are fatal: when the relay is unreachable, the
\* entry point is not among the relay's supported ones or has no code,
\* create never sets this.bundler, never calls unlockVault and never returns
\* the service, and once it has run its checks it has failed; so wherever
\* this.bundler is set, the checks have passed.
C13_StartupChecksFatal ==
    /\ ~ChecksPass
       => /\ ~bundler
          /\ startup.pc # "returned"
          /\ startup.pc \notin {"initialized", "unlockVault"}
          /\ \A c \in Calls : calls[c].pc = "idle"
          /\ keyrings = EmptyKeyrings
    /\ bundler => ChecksPass
    /\ (/\ startup.pc = "failed"
        /\ startup.error \in {"RelayUnreachable", "EntryPointNotSupported",
                              "EntryPointNotDeployed"})
       => ~bundler /\ \A c \in Calls : calls[c].pc = "idle"

\* C13 witness: create has failed on the last check, the entry point's code,
\* with the relay reachable and the entry point supported.
C13_Witness ==
    /\ startup.pc = "failed"
    /\ startup.error = "EntryPointNotDeployed"
    /\ startup.relay
    /\ CreateUnlocks(startup.initialState)
    /\ ~bundler

\* the relay's estimate is unavailable: there is no relay client, or the
\* service's call has failed on the estimate
EstimateUnavailable ==
    \/ ~bundler
    \/ build.error \in {"EstimateFailed", "InvalidBigNumber"}

\* C15: when the relay's estimate is unavailable createUnsignedUserOp fails:
\* it returns no operation, the operation it returns otherwise has been
\* merged with an estimate the relay gave, and the thunk stores no
\* unsignedUserOperation.
C15_NoEstimateNoOperation ==
    /\ EstimateUnavailable
       => /\ build.pc # "done"
          /\ creation.pc # "done" \/ transactions.transactionRequest = {}
          /\ transactions.unsignedUserOperation = {}
    /\ build.pc = "done" => bundler /\ build.gasParameters \in GasEstimates
    /\ transactions.unsignedUserOperation # {}
       => /\ build.pc = "done"
          /\ transactions.unsignedUserOperation = {build.userOp}

\* C15 witness: without a relay client the thunk has failed on the estimate
\* and nothing is stored.
C15_Witness ==
    /\ ~bundler
    /\ creation.pc = "failed"
    /\ build.error = "InvalidBigNumber"
    /\ build.provisional # <<>>
    /\ transactions.unsignedUserOperation = {}

\* C14: sendTransaction hands an operation to the relay only in the step in
\* which signUserOpWithContext has resolved, and it hands over the signed
\* operation that call returned; when the signing rejects, nothing is
\* handed to the relay.
C14_SignBeforeSubmit ==
    /\ [](/\ \A i \in 1..Len(relay) :
               /\ "signature" \in DOMAIN relay[i]
               /\ relay[i] \in send.signedUserOp
          /\ send.pc = "failed" => relay = <<>>
          /\ send.pc \in {"idle", "signUserOpWithContext"} => relay = <<>>)
    /\ [][relay' # relay
          => /\ send.pc = "signUserOpWithContext"
             /\ \E unsignedUserOp \in send.unsignedUserOp :
                  relay' = Append(relay, SignedUserOp(send.address, unsignedUserOp))
             /\ send'.pc = "done"]_vars

\* C14 witness: a signed operation has been handed to the relay.
C14_Witness ==
    /\ Len(relay) = 1
    /\ send.pc = "done"
    /\ relay[1].signature = send.address

\* the step in which a request is rejected at the provider bridge
Rejects ==
    /\ Len(bridge') = Len(bridge) + 1
    /\ bridge'[Len(bridge')].kind = "reject"

\* C21: rejectTransaction rejects the request of the origin the slice held
\* when the thunk was called, and leaves the slice cleared.
C21_RejectsRecordedOrigin ==
    [][Rejects
       => /\ bridge'[Len(bridge')].origin = OriginOrEmpty(transactions.requestOrigin)
          /\ transactions' = InitialTransactionState]_vars

\* C22: a stored unsignedUserOperation was built from the transactionRequest
\* the slice holds now.
C22_UnsignedOpOfCurrentRequest ==
    \A userOp \in transactions.unsignedUserOperation :
        \E transactionRequest \in transactions.transactionRequest :
            userOp.callData = TransactionData(transactionRequest)

====
